---- MODULE Spec2Model ----
(***************************************************************************)
(* Model of package name (src/name.go): a DNS resolver with a TTL cache,   *)
(* background refresh of stale entries and round-robin server selection.   *)
(*                                                                         *)
(* Time is an integer clock; one unit is one minute, so defaultTTL = 5.    *)
(* Every goroutine (a caller inside a public method, or a background       *)
(* resolveDNS) advances by atomic steps, one per access to shared state    *)
(* (the sync.Map, r.ttl, the clock, serverIndex).  Four specifications:    *)
(*   Spec        the cache engine (lookupHost, resolveDNS, GetCachedIPs,   *)
(*               ClearHost, ClearCache, RefreshCache, CacheCount, SetTTL,  *)
(*               background goroutines, the clock);                        *)
(*   SpecDial    the Dial closure of NewResolver under concurrent dials;   *)
(*   SpecWrap    the same, from a counter just below 2^32;                 *)
(*   SpecSelect  resolveAddr's choice of address from a resolved list.     *)
(***************************************************************************)
EXTENDS Integers, Sequences, FiniteSets, TLC

VARIABLES
    clock,        \* time.Now(), in minutes
    ttl,          \* Resolver.ttl
    cache,        \* Resolver.cache: host name -> cacheEntry (or NoEntry)
    call,         \* per caller goroutine: the public method it is inside
    bg,           \* background goroutines running resolveDNS ("go r.resolveDNS")
    ops,          \* number of public calls begun so far (bounded by MaxOps)
    serverIndex,  \* Resolver.serverIndex (uint32, as two 16-bit halves)
    accepts,      \* the DNS servers whose dial succeeds (environment)
    dial,         \* per dialing goroutine: its position in the Dial closure
    dialLog       \* the servers dialed so far, in order of the atomic add

vars == <<clock, ttl, cache, call, bg, ops, serverIndex, accepts, dial, dialLog>>
cacheVars == <<clock, ttl, cache, call, bg, ops>>
dialVars == <<serverIndex, accepts, dial, dialLog>>

----------------------------------------------------------------------------
(* Bounds of the model *)

MaxTime == 5
MaxBg == 2
MaxOps == 3
MaxDials == 7
MaxLen == 3
NearWrap == 3

(* Program constants (src/name.go:14-19), in minutes and percent *)

defaultTTL == 5
refreshThreshold == 80

(* Inputs *)

Callers == {"c1"}
Names == {"a.test", "b.test"}
V4Addrs == {"192.0.2.1", "192.0.2.2"}
V6Addrs == {"2001:db8::1", "2001:db8::2"}
Literals == {"192.0.2.1", "2001:db8::1"}
Hosts == Names \cup Literals
Networks == {"tcp", "tcp4"}
\* the "host:port" strings passed to resolveAddr, already split (SplitHostPort)
Addresses ==
    {[host |-> h, port |-> "80"] : h \in Hosts} \cup {[host |-> "a.test", port |-> "http"]}
TTLArgs == {-5, 0, 3, 6}
AnswerLists == {<<"2001:db8::1", "192.0.2.2">>}
\* the networks of the switch of line 146, and two that take its default
AllNetworks == {"tcp4", "udp4", "tcp6", "udp6", "tcp", "udp", "ip"}
\* the non-empty address lists a lookup can return, up to MaxLen addresses
AddressLists ==
    UNION {[1..n -> V4Addrs \cup V6Addrs] : n \in 1..MaxLen}

----------------------------------------------------------------------------
(* Library functions the code calls *)

\* net.ParseIP: the IP of a literal, "" (nil) for a host name
ParseIP(host) == IF host \in V4Addrs \cup V6Addrs THEN host ELSE ""

\* strconv.Atoi on the port string: [ok, n]
Atoi(port) == IF port = "80" THEN [ok |-> TRUE, n |-> 80] ELSE [ok |-> FALSE, n |-> 0]

\* net.IP.To4 / To16 return non-nil
To4(ip) == ip \in V4Addrs
To16(ip) == ip \in V4Addrs \cup V6Addrs

\* Go's integer division truncates toward zero
GoDiv(a, b) == IF a >= 0 THEN a \div b ELSE -((-a) \div b)

\* net.Resolver.LookupIP: an error, or a (possibly empty) address list
LookupOutcomes ==
    {[err |-> TRUE, ips |-> <<>>], [err |-> FALSE, ips |-> <<>>]}
        \cup {[err |-> FALSE, ips |-> a] : a \in AnswerLists}

----------------------------------------------------------------------------
(* cacheEntry (src/name.go:22-26).  created and ttl are history fields:    *)
(* the time.Now() of resolveDNS line 118 and the r.ttl read on line 121.   *)

NoEntry == [ok |-> FALSE, ips |-> <<>>, expires |-> 0, stale |-> 0, created |-> 0, ttl |-> 0]

\* line 121: expires = now.Add(r.ttl)
ExpiresAt(now, t) == now + t

\* line 122: stale = now.Add(r.ttl * refreshThreshold / 100)
StaleAt(now, t) == now + GoDiv(t * refreshThreshold, 100)

\* NewResolver, lines 39-41
NewTTL(t) == IF t <= 0 THEN defaultTTL ELSE t

\* Time.Before / Time.After
Before(a, b) == a < b
After(a, b) == a > b

----------------------------------------------------------------------------
(* resolveAddr's choice of address, lines 145-171 *)

RECURSIVE FirstV4(_), FirstV6(_)
FirstV4(ips) ==
    IF ips = <<>> THEN ""
    ELSE IF To4(Head(ips)) THEN Head(ips) ELSE FirstV4(Tail(ips))

FirstV6(ips) ==
    IF ips = <<>> THEN ""
    ELSE IF ~To4(Head(ips)) /\ To16(Head(ips)) THEN Head(ips) ELSE FirstV6(Tail(ips))

RetNone == [ips |-> <<>>, ip |-> "", port |-> 0, found |-> FALSE, err |-> ""]

\* (mutant) the switch on the network is missing: always the first address
SelectIPFirst(network, host, ips, portNum) ==
    [RetNone EXCEPT !.ip = ips[1], !.port = portNum]

SelectIP(network, host, ips, portNum) ==
    IF network \in {"tcp4", "udp4"} THEN
        IF FirstV4(ips) = "" THEN [RetNone EXCEPT !.err = "no IPv4 address found"]
        ELSE [RetNone EXCEPT !.ip = FirstV4(ips), !.port = portNum]
    ELSE IF network \in {"tcp6", "udp6"} THEN
        IF FirstV6(ips) = "" THEN [RetNone EXCEPT !.err = "no IPv6 address found"]
        ELSE [RetNone EXCEPT !.ip = FirstV6(ips), !.port = portNum]
    ELSE [RetNone EXCEPT !.ip = ips[1], !.port = portNum]

----------------------------------------------------------------------------
(* Goroutine frames *)

\* History of a caller's previous call, kept while the next one reads the
\* cache: the address and port a successful resolveAddr returned and the
\* entry it returned them from.
PrevNone == [ok |-> FALSE, ip |-> "", port |-> 0, ent |-> NoEntry]

(* A caller's frame.  pc, host, net, port, now, ips, rnow, exp, ttl, todo,  *)
(* extra, hosts, count and ret are the locals and results of the method it  *)
(* is in.  History fields: op (the method), seen (the entry the call read   *)
(* or stored), spawned and lookups (goroutines launched and LookupIP calls  *)
(* made by this call), prev, and repeat (this call hit, still fresh, the    *)
(* very entry the previous identical call returned from), had (the keys in  *)
(* the map when a Range call began), stored (the keys other goroutines      *)
(* stored while the Range call ran) and expired (lookupHost found the       *)
(* host's entry expired).                                                   *)
CallIdle ==
    [pc |-> "idle", op |-> "none", host |-> "", net |-> "", port |-> "",
     now |-> 0, seen |-> NoEntry, ips |-> <<>>, rnow |-> 0, exp |-> 0, ttl |-> 0,
     ret |-> RetNone, spawned |-> 0, lookups |-> 0,
     todo |-> {}, extra |-> {}, hosts |-> {}, count |-> 0,
     prev |-> PrevNone, repeat |-> FALSE, had |-> {}, stored |-> {}, expired |-> FALSE]

BgIdle == [pc |-> "idle", host |-> "", ips |-> <<>>, rnow |-> 0, exp |-> 0, ttl |-> 0]

BgFree(b) == bg[b].pc \in {"idle", "failed", "stored"}
FreeSlots == {b \in 1..MaxBg : BgFree(b)}
LowestFree == CHOOSE b \in FreeSlots : \A d \in FreeSlots : b <= d

\* "go r.resolveDNS(host)": a new goroutine at the start of resolveDNS
BgStart(host) == [BgIdle EXCEPT !.pc = "lookup", !.host = host]
Spawn(host) == [bg EXCEPT ![LowestFree] = BgStart(host)]

\* (mutant) RefreshCache collects the hosts and starts nothing
SpawnAllNone(pool, hs) == pool

\* one goroutine per host of hs, in the free slots (lowest first)
RECURSIVE SpawnAll(_, _)
SpawnAll(pool, hs) ==
    IF hs = {} THEN pool
    ELSE LET h == CHOOSE x \in hs : TRUE
             free == {b \in 1..MaxBg : pool[b].pc \in {"idle", "failed", "stored"}}
             slot == CHOOSE b \in free : \A d \in free : b <= d
         IN  SpawnAll([pool EXCEPT ![slot] = BgStart(h)], hs \ {h})

CanBegin(c) == call[c].pc \in {"idle", "done"} /\ ops < MaxOps

\* (mutant) Delete leaves the key in the map
CacheDeleteNone(host) == cache

\* (mutant) Delete takes every key out of the map
CacheDeleteAll(host) == [h \in Names |-> NoEntry]

\* sync.Map Load / Delete / Store; only host names are ever stored
CacheLoad(host) == IF host \in Names THEN cache[host] ELSE NoEntry
CacheDelete(host) == IF host \in Names THEN [cache EXCEPT ![host] = NoEntry] ELSE cache
CacheStore(host, e) == [cache EXCEPT ![host] = e]

\* the frames after a Store of host by another goroutine: the Range calls in
\* progress have raced with it (history)
Noted(host) ==
    [d \in Callers |->
        IF call[d].pc = "range" THEN [call[d] EXCEPT !.stored = @ \cup {host}] ELSE call[d]]

\* a call returns r, having stored e; its resolveDNS locals go out of scope
Finish(c, r, e) ==
    [call EXCEPT ![c] = [call[c] EXCEPT !.pc = "done", !.ret = r, !.seen = e,
                                        !.ips = <<>>, !.rnow = 0, !.exp = 0, !.ttl = 0]]

----------------------------------------------------------------------------
(* lookupHost, lines 80-101, inside resolveAddr, lines 129-172 *)

\* (mutant) the literal-IP short-circuit is missing
IsLiteralNever(host) == FALSE

\* line 81: a literal IP is returned at once
IsLiteral(host) == ParseIP(host) # ""

\* (mutant) the expiry test is inverted
UsableFlipped(now, e) == After(now, e.expires)

\* line 89: the entry is still usable
Usable(now, e) == Before(now, e.expires)

\* (mutant) the refresh test is inverted
NeedsRefreshFlipped(now, e) == Before(now, e.stale)

\* line 91: the entry is past its refresh time
NeedsRefresh(now, e) == After(now, e.stale)

\* lines 130-143 and 81-85: split and parse the address, short-circuit a
\* literal IP, else take time.Now() and go on to the cache
ResolveAddrBegin(c) ==
    /\ CanBegin(c)
    /\ \E network \in Networks, a \in Addresses :
        LET host == a.host
            port == a.port
            p == call[c]
            again == /\ p.pc = "done" /\ p.op = "resolveAddr" /\ p.host = host
                     /\ p.net = network /\ p.port = port /\ p.ret.err = "" /\ p.seen.ok
            f == [CallIdle EXCEPT !.op = "resolveAddr", !.host = host,
                                  !.net = network, !.port = port]
        IN  IF ~Atoi(port).ok
            THEN call' = [call EXCEPT ![c] =
                    [f EXCEPT !.pc = "done", !.ret.err = "invalid port"]]
            ELSE IF IsLiteral(host)
            THEN call' = [call EXCEPT ![c] =
                    [f EXCEPT !.pc = "done",
                              !.ret = SelectIP(network, host, <<ParseIP(host)>>, Atoi(port).n)]]
            ELSE call' = [call EXCEPT ![c] =
                    [f EXCEPT !.pc = "load", !.now = clock,
                              !.prev = IF again
                                       THEN [ok |-> TRUE, ip |-> p.ret.ip,
                                             port |-> p.ret.port, ent |-> p.seen]
                                       ELSE PrevNone]]
    /\ ops' = ops + 1
    /\ UNCHANGED <<clock, ttl, cache, bg, dialVars>>

\* lines 87-95: Load; a usable entry is returned, with a background refresh
\* launched when it is past its refresh time.  The locals now and ce are dead
\* after this step and are dropped from the frame.
LookupHostLoad(c) ==
    /\ call[c].pc = "load"
    /\ LET f == call[c]
           e == CacheLoad(f.host)
           g == [f EXCEPT !.now = 0, !.prev = PrevNone]
       IN  IF e.ok /\ Usable(f.now, e)
           THEN /\ NeedsRefresh(f.now, e) => FreeSlots # {}
                /\ bg' = IF NeedsRefresh(f.now, e) THEN Spawn(f.host) ELSE bg
                /\ call' = [call EXCEPT ![c] =
                       [g EXCEPT !.pc = "done", !.seen = e,
                                 !.repeat = f.prev.ok /\ e = f.prev.ent
                                                /\ Before(f.now, e.stale),
                                 !.spawned = IF NeedsRefresh(f.now, e) THEN 1 ELSE 0,
                                 !.ret = SelectIP(f.net, f.host, e.ips, Atoi(f.port).n)]]
           ELSE /\ call' = [call EXCEPT ![c] =
                       [g EXCEPT !.pc = IF e.ok THEN "delete" ELSE "lookup",
                                 !.expired = e.ok]]
                /\ bg' = bg
    /\ UNCHANGED <<clock, ttl, cache, ops, dialVars>>

\* line 97: the expired entry is deleted, then resolveDNS runs (line 100)
LookupHostDelete(c) ==
    /\ call[c].pc = "delete"
    /\ cache' = CacheDelete(call[c].host)
    /\ call' = [call EXCEPT ![c].pc = "lookup"]
    /\ UNCHANGED <<clock, ttl, bg, ops, dialVars>>

----------------------------------------------------------------------------
(* resolveDNS, lines 104-126 *)

\* (mutant) the check of line 113 is missing: an empty answer is no error
LookupErrorLax(o) == IF o.err THEN "lookup failed" ELSE ""

\* lines 108-115: the error resolveDNS returns for a lookup outcome, "" for none
LookupError(o) ==
    IF o.err THEN "lookup failed"
    ELSE IF Len(o.ips) = 0 THEN "no IP addresses found"
    ELSE ""

\* lines 119-123: the entry built from the locals and the second read of r.ttl
NewEntry(ips, rnow, exp, ttlE, ttlNow) ==
    [ok |-> TRUE, ips |-> ips, expires |-> exp, stale |-> StaleAt(rnow, ttlNow),
     created |-> rnow, ttl |-> ttlE]

\* (mutant) a failed resolution drops the host's entry
CacheAfterFailureDrop(host) == CacheDelete(host)

\* the cache after resolveDNS ends in an error (lines 110, 114: nothing stored)
CacheAfterFailure(host) == cache

\* lines 108-115, called synchronously from lookupHost
ResolveDNSLookup(c) ==
    /\ call[c].pc = "lookup"
    /\ \E o \in LookupOutcomes :
        LET f == [call[c] EXCEPT !.lookups = @ + 1]
        IN  IF LookupError(o) # ""
            THEN /\ call' = [call EXCEPT ![c] =
                        [f EXCEPT !.pc = "done", !.ret.err = LookupError(o)]]
                 /\ cache' = CacheAfterFailure(f.host)
            ELSE /\ call' = [call EXCEPT ![c] = [f EXCEPT !.pc = "stamp", !.ips = o.ips]]
                 /\ cache' = cache
    /\ UNCHANGED <<clock, ttl, bg, ops, dialVars>>

\* lines 118 and 121: time.Now() and the first read of r.ttl
ResolveDNSStamp(c) ==
    /\ call[c].pc = "stamp"
    /\ call' = [call EXCEPT ![c] =
            [call[c] EXCEPT !.pc = "store", !.rnow = clock,
                            !.exp = ExpiresAt(clock, ttl), !.ttl = ttl]]
    /\ UNCHANGED <<clock, ttl, cache, bg, ops, dialVars>>

\* lines 122, 119 and 125: the second read of r.ttl, Store, return ips
ResolveDNSStore(c) ==
    /\ call[c].pc = "store"
    /\ LET f == call[c]
           e == NewEntry(f.ips, f.rnow, f.exp, f.ttl, ttl)
       IN  /\ cache' = CacheStore(f.host, e)
           /\ call' = [d \in Callers |->
                        IF d = c
                        THEN Finish(c, SelectIP(f.net, f.host, f.ips, Atoi(f.port).n), e)[c]
                        ELSE Noted(f.host)[d]]
    /\ UNCHANGED <<clock, ttl, bg, ops, dialVars>>

\* the same three steps in a goroutine started by "go r.resolveDNS(host)":
\* the results are dropped
BgLookup(b) ==
    /\ bg[b].pc = "lookup"
    /\ \E o \in LookupOutcomes :
        IF LookupError(o) # ""
        THEN /\ bg' = [bg EXCEPT ![b] = [BgIdle EXCEPT !.pc = "failed", !.host = bg[b].host]]
             /\ cache' = CacheAfterFailure(bg[b].host)
        ELSE /\ bg' = [bg EXCEPT ![b] = [bg[b] EXCEPT !.pc = "stamp", !.ips = o.ips]]
             /\ cache' = cache
    /\ UNCHANGED <<clock, ttl, call, ops, dialVars>>

BgStamp(b) ==
    /\ bg[b].pc = "stamp"
    /\ bg' = [bg EXCEPT ![b] =
            [bg[b] EXCEPT !.pc = "store", !.rnow = clock,
                          !.exp = ExpiresAt(clock, ttl), !.ttl = ttl]]
    /\ UNCHANGED <<clock, ttl, cache, call, ops, dialVars>>

BgStore(b) ==
    /\ bg[b].pc = "store"
    /\ LET f == bg[b]
       IN  /\ cache' = CacheStore(f.host, NewEntry(f.ips, f.rnow, f.exp, f.ttl, ttl))
           /\ bg' = [bg EXCEPT ![b] = [BgIdle EXCEPT !.pc = "stored", !.host = f.host]]
           /\ call' = Noted(f.host)
    /\ UNCHANGED <<clock, ttl, ops, dialVars>>

----------------------------------------------------------------------------
(* GetCachedIPs, lines 206-219 *)

\* (mutant) the expiry test of the probe is inverted
ProbeExpiredFlipped(now, e) == Before(now, e.expires)

\* line 213: the entry is treated as expired
ProbeExpired(now, e) == After(now, e.expires)

\* lines 207-210: Load
GetCachedIPsLoad(c) ==
    /\ CanBegin(c)
    /\ \E host \in Names :
        LET f == [CallIdle EXCEPT !.op = "GetCachedIPs", !.host = host]
        IN  call' = [call EXCEPT ![c] =
                IF CacheLoad(host).ok
                THEN [f EXCEPT !.pc = "probe", !.seen = CacheLoad(host)]
                ELSE [f EXCEPT !.pc = "done"]]
    /\ ops' = ops + 1
    /\ UNCHANGED <<clock, ttl, cache, bg, dialVars>>

\* lines 212-218: time.Now() against the loaded entry's expires
GetCachedIPsCheck(c) ==
    /\ call[c].pc = "probe"
    /\ LET f == call[c]
           g == [f EXCEPT !.now = clock]
       IN  IF ProbeExpired(clock, f.seen)
           THEN call' = [call EXCEPT ![c] = [g EXCEPT !.pc = "probeDelete"]]
           ELSE call' = [call EXCEPT ![c] =
                    [g EXCEPT !.pc = "done", !.ret.ips = f.seen.ips, !.ret.found = TRUE]]
    /\ UNCHANGED <<clock, ttl, cache, bg, ops, dialVars>>

\* lines 214-215: Delete, return not found
GetCachedIPsDelete(c) ==
    /\ call[c].pc = "probeDelete"
    /\ cache' = CacheDelete(call[c].host)
    /\ call' = [call EXCEPT ![c].pc = "done"]
    /\ UNCHANGED <<clock, ttl, bg, ops, dialVars>>

----------------------------------------------------------------------------
(* ClearHost (lines 201-203), SetTTL (lines 245-247), the clock *)

\* line 202: Delete.  seen (history) is the entry the call took out, if any.
ClearHost(c) ==
    /\ CanBegin(c)
    /\ \E host \in Names :
        /\ cache' = CacheDelete(host)
        /\ call' = [call EXCEPT ![c] =
                [CallIdle EXCEPT !.pc = "done", !.op = "ClearHost", !.host = host,
                                 !.seen = CacheLoad(host)]]
    /\ ops' = ops + 1
    /\ UNCHANGED <<clock, ttl, bg, dialVars>>

\* (mutant) SetTTL re-stamps the entries already cached
CacheAfterSetTTLRetro(d) ==
    [h \in Names |->
        IF cache[h].ok
        THEN [cache[h] EXCEPT !.expires = ExpiresAt(cache[h].created, d),
                              !.stale = StaleAt(cache[h].created, d)]
        ELSE cache[h]]

\* the cache after SetTTL (line 246 writes r.ttl only): untouched
CacheAfterSetTTL(d) == cache

SetTTL(c) ==
    /\ CanBegin(c)
    /\ \E d \in TTLArgs :
        /\ ttl' = d
        /\ cache' = CacheAfterSetTTL(d)
        /\ call' = [call EXCEPT ![c] =
                [CallIdle EXCEPT !.pc = "done", !.op = "SetTTL", !.ttl = d]]
    /\ ops' = ops + 1
    /\ UNCHANGED <<clock, bg, dialVars>>

----------------------------------------------------------------------------
(* ClearCache (lines 193-198), RefreshCache (222-232), CacheCount (235-242) *)
(* all walk the map with sync.Map.Range, which is no snapshot: a key that   *)
(* is present when Range starts is visited (and skipped if deleted by       *)
(* then); a key stored while Range runs may or may not be visited.          *)

Present == {h \in Names : cache[h].ok}

\* the zero sync.Map of a new Resolver (lines 43-46): no key
EmptyCache == [h \in Names |-> NoEntry]

RangeOps == {"ClearCache", "RefreshCache", "CacheCount"}

RangeBegin(c) ==
    /\ CanBegin(c)
    /\ \E op \in RangeOps :
        call' = [call EXCEPT ![c] =
            [CallIdle EXCEPT !.pc = "range", !.op = op, !.had = Present,
                             !.todo = Present, !.extra = Names \ Present]]
    /\ ops' = ops + 1
    /\ UNCHANGED <<clock, ttl, cache, bg, dialVars>>

\* (mutant) ClearCache's callback deletes nothing
CacheAfterVisitKeep(op, k) == cache

\* the cache after the Range callback of op ran for key k: line 195 deletes
\* the key, the callbacks of lines 225 and 238 only read
CacheAfterVisit(op, k) == IF op = "ClearCache" THEN CacheDelete(k) ELSE cache

\* one call of the Range callback, for key k
RangeVisit(c) ==
    /\ call[c].pc = "range"
    /\ \E k \in call[c].todo \cup (call[c].extra \cap Present) :
        LET f == [call[c] EXCEPT !.todo = @ \ {k}, !.extra = @ \ {k}]
        IN  IF ~cache[k].ok
            THEN call' = [call EXCEPT ![c] = f] /\ cache' = cache
            ELSE /\ cache' = CacheAfterVisit(f.op, k)
                 /\ call' = [call EXCEPT ![c] =
                        IF f.op = "RefreshCache" THEN [f EXCEPT !.hosts = @ \cup {k}]
                        ELSE IF f.op = "CacheCount" THEN [f EXCEPT !.count = @ + 1]
                        ELSE f]
    /\ UNCHANGED <<clock, ttl, bg, ops, dialVars>>

\* Range returns; RefreshCache then starts one goroutine per collected host
RangeEnd(c) ==
    /\ call[c].pc = "range"
    /\ call[c].todo = {}
    /\ LET f == call[c]
       IN  IF f.op = "RefreshCache"
           THEN /\ Cardinality(f.hosts) <= Cardinality(FreeSlots)
                /\ bg' = SpawnAll(bg, f.hosts)
                /\ call' = [call EXCEPT ![c] =
                        [f EXCEPT !.pc = "done", !.extra = {},
                                  !.spawned = Cardinality(f.hosts)]]
           ELSE /\ bg' = bg
                /\ call' = [call EXCEPT ![c] = [f EXCEPT !.pc = "done", !.extra = {}]]
    /\ UNCHANGED <<clock, ttl, cache, ops, dialVars>>

\* GetTTL, lines 250-252
GetTTL(c) ==
    /\ CanBegin(c)
    /\ call' = [call EXCEPT ![c] =
            [CallIdle EXCEPT !.pc = "done", !.op = "GetTTL", !.ttl = ttl]]
    /\ ops' = ops + 1
    /\ UNCHANGED <<clock, ttl, cache, bg, dialVars>>

Tick ==
    /\ clock < MaxTime
    /\ clock' = clock + 1
    /\ UNCHANGED <<ttl, cache, call, bg, ops, dialVars>>

----------------------------------------------------------------------------
(* The Dial closure of NewResolver, lines 52-70 *)

dnsServers == <<"ns1", "ns2", "ns3">>
Servers == {dnsServers[i] : i \in 1..Len(dnsServers)}
Dialers == {"d1", "d2"}

\* serverIndex is a uint32 (line 33), kept as two 16-bit halves
Half == 65536

ServerIndexZero == [hi |-> 0, lo |-> 0]

\* atomic.AddUint32(&serverIndex, 1): the new value, wrapping at 2^32
AddUint32(s) ==
    IF s.lo + 1 < Half THEN [s EXCEPT !.lo = @ + 1]
    ELSE IF s.hi + 1 < Half THEN [hi |-> s.hi + 1, lo |-> 0]
    ELSE ServerIndexZero

\* line 57: int(idx) % len(dnsServers), with a 64-bit int
IndexMod(idx, n) == (((idx.hi % n) * (Half % n)) + idx.lo) % n

\* (mutant) the "- 1" of line 56 is missing: the value after the add is used
ServerForNext(idx) == dnsServers[IndexMod(AddUint32(idx), Len(dnsServers)) + 1]

\* lines 56-57: idx is the counter's value before the add; the server dialed
ServerFor(idx) == dnsServers[IndexMod(idx, Len(dnsServers)) + 1]

DialIdle == [pc |-> "idle", i |-> 0, tried |-> {}, conn |-> ""]

\* the resolver calls Dial: line 53, the loop has not started
DialBegin(p) ==
    /\ dial[p].pc \in {"idle", "ok", "failed"}
    /\ dial' = [dial EXCEPT ![p] = [DialIdle EXCEPT !.pc = "loop"]]
    /\ UNCHANGED <<serverIndex, accepts, dialLog, cacheVars>>

\* one iteration of the loop, lines 55-68, and line 69 after the last one
DialAttempt(p) ==
    /\ dial[p].pc = "loop"
    /\ Len(dialLog) < MaxDials
    /\ LET server == ServerFor(serverIndex)
           d == dial[p]
       IN  /\ serverIndex' = AddUint32(serverIndex)
           /\ dialLog' = Append(dialLog, server)
           /\ IF server \in accepts
              THEN dial' = [dial EXCEPT ![p] = [d EXCEPT !.pc = "ok", !.conn = server]]
              ELSE dial' = [dial EXCEPT ![p] =
                      [d EXCEPT !.i = @ + 1, !.tried = @ \cup {server},
                                !.pc = IF d.i + 1 = Len(dnsServers) THEN "failed" ELSE "loop"]]
    /\ UNCHANGED <<accepts, cacheVars>>

----------------------------------------------------------------------------
(* resolveAddr's selection on its own: lookupHost has returned ips (line    *)
(* 140) and the switch of lines 145-171 picks the address to return.        *)

Select(c) ==
    /\ call[c].pc = "select"
    /\ LET f == call[c]
       IN  call' = [call EXCEPT ![c] =
               [f EXCEPT !.pc = "done",
                         !.ret = SelectIP(f.net, f.host, f.ips, Atoi(f.port).n)]]
    /\ UNCHANGED <<clock, ttl, cache, bg, ops, dialVars>>

InitSelect ==
    /\ clock = 0
    /\ ttl = defaultTTL
    /\ cache = EmptyCache
    /\ \E network \in AllNetworks, L \in AddressLists :
        call = [c \in Callers |->
                   [CallIdle EXCEPT !.pc = "select", !.op = "resolveAddr", !.host = "a.test",
                                    !.net = network, !.port = "80", !.ips = L]]
    /\ bg = [b \in 1..MaxBg |-> BgIdle]
    /\ ops = 0
    /\ serverIndex = ServerIndexZero
    /\ accepts = {}
    /\ dial = [p \in Dialers |-> DialIdle]
    /\ dialLog = <<>>

NextSelect == \E c \in Callers : Select(c)

SpecSelect == InitSelect /\ [][NextSelect]_vars

----------------------------------------------------------------------------
(* The cache engine *)

\* NewResolver(ttl, dnsServers), lines 38-77, then nothing has run yet
Init ==
    /\ clock = 0
    /\ ttl \in {NewTTL(t) : t \in TTLArgs}
    /\ cache = [h \in Names |-> NoEntry]
    /\ call = [c \in Callers |-> CallIdle]
    /\ bg = [b \in 1..MaxBg |-> BgIdle]
    /\ ops = 0
    /\ serverIndex = ServerIndexZero
    /\ accepts = {}
    /\ dial = [p \in Dialers |-> DialIdle]
    /\ dialLog = <<>>

Next ==
    \/ \E c \in Callers : ResolveAddrBegin(c)
    \/ \E c \in Callers : LookupHostLoad(c)
    \/ \E c \in Callers : LookupHostDelete(c)
    \/ \E c \in Callers : ResolveDNSLookup(c)
    \/ \E c \in Callers : ResolveDNSStamp(c)
    \/ \E c \in Callers : ResolveDNSStore(c)
    \/ \E b \in 1..MaxBg : BgLookup(b)
    \/ \E b \in 1..MaxBg : BgStamp(b)
    \/ \E b \in 1..MaxBg : BgStore(b)
    \/ \E c \in Callers : GetCachedIPsLoad(c)
    \/ \E c \in Callers : GetCachedIPsCheck(c)
    \/ \E c \in Callers : GetCachedIPsDelete(c)
    \/ \E c \in Callers : ClearHost(c)
    \/ \E c \in Callers : SetTTL(c)
    \/ \E c \in Callers : GetTTL(c)
    \/ \E c \in Callers : RangeBegin(c)
    \/ \E c \in Callers : RangeVisit(c)
    \/ \E c \in Callers : RangeEnd(c)
    \/ Tick

Spec == Init /\ [][Next]_vars

\* NewResolver with three servers, any of which may refuse every dial
InitDial ==
    /\ clock = 0
    /\ ttl = defaultTTL
    /\ cache = [h \in Names |-> NoEntry]
    /\ call = [c \in Callers |-> CallIdle]
    /\ bg = [b \in 1..MaxBg |-> BgIdle]
    /\ ops = 0
    /\ serverIndex = ServerIndexZero
    /\ accepts \in SUBSET Servers
    /\ dial = [p \in Dialers |-> DialIdle]
    /\ dialLog = <<>>

NextDial ==
    \/ \E p \in Dialers : DialBegin(p)
    \/ \E p \in Dialers : DialAttempt(p)

SpecDial == InitDial /\ [][NextDial]_vars

\* a <= b as uint32 values (hi * 2^16 + lo)
Uint32Leq(a, b) == a.hi < b.hi \/ (a.hi = b.hi /\ a.lo <= b.lo)

\* a resolver that has made all but the last 1..NearWrap of the 2^32 dial
\* attempts its counter can count
InitWrap ==
    /\ clock = 0
    /\ ttl = defaultTTL
    /\ cache = EmptyCache
    /\ call = [c \in Callers |-> CallIdle]
    /\ bg = [b \in 1..MaxBg |-> BgIdle]
    /\ ops = 0
    /\ serverIndex \in {[hi |-> Half - 1, lo |-> Half - k] : k \in 1..NearWrap}
    /\ accepts \in SUBSET Servers
    /\ dial = [p \in Dialers |-> DialIdle]
    /\ dialLog = <<>>

SpecWrap == InitWrap /\ [][NextDial]_vars

----------------------------------------------------------------------------
(* Properties *)

\* goroutines started by the step, to resolve host h
LaunchedFor(h) == {b \in 1..MaxBg : bg'[b] # bg[b] /\ bg'[b] = BgStart(h)}

\* the caller's frame changed in the step
Stepped(c) == call'[c] # call[c]

\* C1: an entry stored at t0 under TTL T is found by GetCachedIPs, with its
\* addresses, at every t0 <= t < t0+T, and is not found at any t >= t0+T,
\* the instant t = t0+T included.
C1_Claim ==
    \A c \in Callers :
        LET f == call[c]
        IN  (f.pc = "done" /\ f.op = "GetCachedIPs" /\ f.seen.ok) =>
                IF f.now < f.seen.created + f.seen.ttl
                THEN f.ret.found /\ f.ret.ips = f.seen.ips
                ELSE ~f.ret.found

\* C2 (as claimed): a resolveAddr read of a cached host at a time t with
\* staleAt <= t < expiresAt returns the cached addresses without a
\* synchronous lookup and launches exactly one background resolution.
C2_Claim ==
    [][\A c \in Callers :
        LET f == call[c]
            e == CacheLoad(f.host)
        IN  (f.pc = "load" /\ Stepped(c) /\ e.ok /\ e.stale <= f.now /\ f.now < e.expires) =>
                /\ call'[c].pc = "done"
                /\ call'[c].ret = SelectIP(f.net, f.host, e.ips, Atoi(f.port).n)
                /\ call'[c].lookups = 0
                /\ Cardinality(LaunchedFor(f.host)) = 1]_vars

\* C2 (amended): a resolveAddr read of a cached host at a time t with
\* t < expiresAt returns the cached addresses without a synchronous lookup;
\* it launches exactly one background resolution when staleAt < t, and none
\* when t <= staleAt, the instant t = staleAt included.
C2_Amended ==
    [][\A c \in Callers :
        LET f == call[c]
            e == CacheLoad(f.host)
        IN  (f.pc = "load" /\ Stepped(c) /\ e.ok /\ f.now < e.expires) =>
                /\ call'[c].pc = "done"
                /\ call'[c].ret = SelectIP(f.net, f.host, e.ips, Atoi(f.port).n)
                /\ call'[c].lookups = 0
                /\ Cardinality(LaunchedFor(f.host)) = IF e.stale < f.now THEN 1 ELSE 0
                /\ \A h \in Names \ {f.host} : LaunchedFor(h) = {}]_vars

\* a stale hit has happened: the call returned from the cache without a
\* lookup and its background resolution has been started
C2_Witness ==
    \E c \in Callers :
        /\ call[c].pc = "done" /\ call[c].op = "resolveAddr"
        /\ call[c].spawned = 1 /\ call[c].lookups = 0 /\ call[c].ret.ip # ""
        /\ \E b \in 1..MaxBg : bg[b] = BgStart(call[c].host)

\* C3: when at least one configured server accepts dials, no invocation of
\* Dial fails, under any interleaving of the invocations.
C3_Claim == accepts # {} => \A p \in Dialers : dial[p].pc # "failed"

\* C4: a resolution (synchronous or in a background goroutine) whose lookup
\* fails or yields no address stores nothing, so the cache is as it was, and
\* a failed background resolution changes no caller's result.
C4_Theorem ==
    [][/\ \A c \in Callers :
            (call[c].pc = "lookup" /\ call'[c].pc = "done") =>
                cache' = cache /\ call'[c].ret.err # ""
       /\ \A b \in 1..MaxBg :
            (bg[b].pc = "lookup" /\ bg'[b].pc = "failed") =>
                cache' = cache /\ call' = call]_vars

\* a background refresh has failed and the host's entry is still there, unexpired
C4_Witness ==
    \E b \in 1..MaxBg :
        /\ bg[b].pc = "failed"
        /\ cache[bg[b].host].ok
        /\ clock < cache[bg[b].host].expires

\* C5: every cached entry has staleAt <= expiresAt, with both computed from
\* its creation time and one single ttl.
C5_Claim ==
    \A h \in Names :
        cache[h].ok =>
            /\ cache[h].stale <= cache[h].expires
            /\ cache[h].expires = ExpiresAt(cache[h].created, cache[h].ttl)
            /\ cache[h].stale = StaleAt(cache[h].created, cache[h].ttl)

\* C6: SetTTL(T2) changes no cache entry: every entry keeps the expiresAt and
\* staleAt it was created with; only r.ttl, read by later stores, changes.
C6_Theorem ==
    [][\A c \in Callers :
        (ops' = ops + 1 /\ call'[c].op = "SetTTL") =>
            cache' = cache /\ ttl' = call'[c].ttl]_vars

\* SetTTL has returned while an entry created under another ttl is cached,
\* still expiring at its creation time plus that ttl
C6_Witness ==
    \E c \in Callers, h \in Names :
        /\ call[c].pc = "done" /\ call[c].op = "SetTTL"
        /\ cache[h].ok /\ cache[h].ttl # ttl
        /\ cache[h].expires = cache[h].created + cache[h].ttl

\* the network asks for the family that ip has
FamilyFits(network, ip) ==
    /\ network \in {"tcp4", "udp4"} => To4(ip)
    /\ network \in {"tcp6", "udp6"} => ~To4(ip) /\ To16(ip)

\* C7 (as claimed): resolveAddr on an address whose host is a literal IP
\* returns that IP, with no lookup or goroutine and the cache unchanged.
C7_Claim ==
    [][\A c \in Callers :
        LET g == call'[c]
        IN  (ops' = ops + 1 /\ g.op = "resolveAddr" /\ g.host \in Literals /\ Atoi(g.port).ok) =>
                /\ g.pc = "done" /\ g.ret.err = "" /\ g.ret.ip = g.host
                /\ g.lookups = 0 /\ g.spawned = 0
                /\ cache' = cache /\ bg' = bg]_vars

\* C7 (amended): resolveAddr on an address whose host is a literal IP returns
\* at once, with no lookup or goroutine and the cache unchanged; it returns
\* that IP when the IP has the family the network asks for, and the
\* no-IPv4 / no-IPv6 error otherwise.
C7_Amended ==
    [][\A c \in Callers :
        LET g == call'[c]
        IN  (ops' = ops + 1 /\ g.op = "resolveAddr" /\ g.host \in Literals /\ Atoi(g.port).ok) =>
                /\ g.pc = "done"
                /\ IF FamilyFits(g.net, g.host)
                   THEN g.ret.err = "" /\ g.ret.ip = g.host /\ g.ret.port = Atoi(g.port).n
                   ELSE g.ret.ip = "" /\ g.ret.err \in {"no IPv4 address found",
                                                         "no IPv6 address found"}
                /\ g.lookups = 0 /\ g.spawned = 0
                /\ cache' = cache /\ bg' = bg]_vars

\* a literal has been resolved to itself while the cache holds an entry
C7_Witness ==
    \E c \in Callers :
        /\ call[c].pc = "done" /\ call[c].op = "resolveAddr"
        /\ call[c].host \in Literals /\ call[c].ret.ip = call[c].host
        /\ \E h \in Names : cache[h].ok

\* C8: when every server accepts, the k-th dial attempt (from 0) since
\* construction goes to dnsServers[k mod N].
C8_Theorem ==
    accepts = Servers =>
        \A k \in 1..Len(dialLog) :
            dialLog[k] = dnsServers[((k - 1) % Len(dnsServers)) + 1]

\* one goroutine has dialed four times in sequence: ns1, ns2, ns3, ns1
C8_Witness ==
    /\ accepts = Servers
    /\ dial["d2"].pc = "idle"
    /\ dialLog = <<"ns1", "ns2", "ns3", "ns1">>

\* C9: when resolveAddr is called again for the same host, network and port
\* and the entry the first call returned from is still the host's entry and
\* fresh (unexpired, now < staleAt), the second call returns the same IP and
\* port, makes no lookup and launches no refresh.
C9_Theorem ==
    [][\A c \in Callers :
        LET f == call[c]
            e == CacheLoad(f.host)
        IN  (f.pc = "load" /\ Stepped(c) /\ f.prev.ok /\ e = f.prev.ent
                /\ f.now < e.expires /\ f.now < e.stale) =>
                /\ call'[c].pc = "done"
                /\ call'[c].ret.err = ""
                /\ call'[c].ret.ip = f.prev.ip /\ call'[c].ret.port = f.prev.port
                /\ call'[c].lookups = 0 /\ call'[c].spawned = 0
                /\ bg' = bg /\ cache' = cache]_vars

\* the second of two identical calls has returned from the same fresh entry
C9_Witness ==
    \E c \in Callers :
        /\ call[c].pc = "done" /\ call[c].op = "resolveAddr" /\ call[c].repeat
        /\ call[c].ret.ip # "" /\ call[c].lookups = 0

\* C10: GetCachedIPs(H) starts no resolution; it changes the cache only by
\* removing H's entry, and only after it loaded an entry of H that was past
\* its expiry when the call read the clock; other hosts' entries are unchanged.
C10_Theorem ==
    [][\A c \in Callers :
        (Stepped(c) /\ call'[c].op = "GetCachedIPs") =>
            LET h == call'[c].host
            IN  /\ bg' = bg
                /\ call'[c].lookups = 0 /\ call'[c].spawned = 0
                /\ \A k \in Names \ {h} : cache'[k] = cache[k]
                /\ cache'[h] # cache[h] =>
                       /\ cache'[h] = NoEntry
                       /\ call[c].pc = "probeDelete" /\ call[c].seen.ok
                       /\ call[c].now > call[c].seen.expires]_vars

\* GetCachedIPs has found H's entry expired and removed it, another host's
\* entry being still cached
C10_Witness ==
    \E c \in Callers :
        /\ call[c].pc = "done" /\ call[c].op = "GetCachedIPs"
        /\ call[c].seen.ok /\ ~call[c].ret.found
        /\ ~cache[call[c].host].ok
        /\ \E k \in Names \ {call[c].host} : cache[k].ok

\* C11: ClearHost(H) removes H's entry and leaves the entry of every other
\* host as it was; when H has no entry the cache is unchanged.  It starts no
\* goroutine and does not touch r.ttl.
C11_Theorem ==
    [][\A c \in Callers :
        (ops' = ops + 1 /\ call'[c].op = "ClearHost") =>
            LET h == call'[c].host
            IN  /\ cache'[h] = NoEntry
                /\ \A k \in Names \ {h} : cache'[k] = cache[k]
                /\ ~cache[h].ok => cache' = cache
                /\ bg' = bg /\ ttl' = ttl]_vars

\* ClearHost(H) has removed H's entry while another host's entry stays cached
C11_Witness ==
    \E c \in Callers :
        /\ call[c].pc = "done" /\ call[c].op = "ClearHost" /\ call[c].seen.ok
        /\ cache[call[c].host] = NoEntry
        /\ \E k \in Names \ {call[c].host} : cache[k].ok

\* C12: when ClearCache returns and no resolution stored an entry while it
\* ran, the cache is empty; on an empty cache CacheCount returns 0 (no
\* resolution storing while it runs) and GetCachedIPs(H) returns not found.
C12_Theorem ==
    [][\A c \in Callers :
        LET f == call[c]
            g == call'[c]
        IN  /\ (f.pc = "range" /\ g.pc = "done" /\ f.op = "ClearCache" /\ f.stored = {}) =>
                    cache' = EmptyCache
            /\ (f.pc = "range" /\ g.pc = "done" /\ f.op = "CacheCount"
                    /\ f.had = {} /\ f.stored = {}) => g.count = 0
            /\ (ops' = ops + 1 /\ g.op = "GetCachedIPs" /\ cache = EmptyCache) =>
                    g.pc = "done" /\ ~g.ret.found /\ g.ret.ips = <<>>]_vars

\* ClearCache has returned, having found both hosts cached and raced with no
\* store, and the cache is empty
C12_Witness ==
    \E c \in Callers :
        /\ call[c].pc = "done" /\ call[c].op = "ClearCache"
        /\ call[c].had = Names /\ call[c].stored = {}
        /\ cache = EmptyCache

\* C13: RefreshCache starts exactly one goroutine for each host that has an
\* entry when the call begins (no other call removes entries while it runs),
\* none for a host that has no entry at any moment of the call, at most one
\* for any host, and returns with every one of them still at the start of
\* resolveDNS: it makes no lookup itself and leaves the cache as it is.
C13_Theorem ==
    [][\A c \in Callers :
        LET f == call[c]
            g == call'[c]
        IN  (f.pc = "range" /\ g.pc = "done" /\ f.op = "RefreshCache") =>
                /\ \A h \in Names :
                    /\ h \in f.had => Cardinality(LaunchedFor(h)) = 1
                    /\ h \notin f.had \cup f.stored => LaunchedFor(h) = {}
                    /\ Cardinality(LaunchedFor(h)) <= 1
                /\ \A b \in 1..MaxBg :
                    bg'[b] # bg[b] => \E h \in Names : b \in LaunchedFor(h)
                /\ g.lookups = 0
                /\ cache' = cache]_vars

\* RefreshCache has returned with both hosts cached and one goroutine for
\* each, neither of which has made its lookup yet
C13_Witness ==
    \E c \in Callers :
        /\ call[c].pc = "done" /\ call[c].op = "RefreshCache"
        /\ call[c].had = Names /\ call[c].spawned = 2
        /\ \A h \in Names : \E b \in 1..MaxBg : bg[b] = BgStart(h)

\* C14: entries are refreshed automatically at 80% of their TTL: when the
\* clock reaches the expiry of a cached, still unexpired entry that has a
\* refresh window (staleAt < expiresAt), a background resolution has been
\* launched, so some goroutine has been started since construction.
C14_Claim ==
    [][\A h \in Names :
        (cache[h].ok /\ cache[h].stale < cache[h].expires
            /\ clock < cache[h].expires /\ clock' >= cache[h].expires) =>
            \E b \in 1..MaxBg : bg[b].pc # "idle"]_vars

\* the positions of L holding an address with a 4-byte form, and those
\* holding one with no 4-byte form but a 16-byte form
V4At(L) == {i \in 1..Len(L) : To4(L[i])}
V6At(L) == {i \in 1..Len(L) : ~To4(L[i]) /\ To16(L[i])}
Lowest(S) == CHOOSE i \in S : \A j \in S : i <= j

\* C15: for a non-empty resolved list L, tcp4/udp4 returns the first element
\* of L with a 4-byte form, or the no-IPv4 error when there is none;
\* tcp6/udp6 returns the first element with no 4-byte form but a 16-byte
\* form, or the no-IPv6 error; any other network returns L[1], the head.
C15_Theorem ==
    \A c \in Callers :
        LET f == call[c]
            L == f.ips
        IN  (f.pc = "done" /\ f.op = "resolveAddr" /\ L # <<>>) =>
                IF f.net \in {"tcp4", "udp4"}
                THEN IF V4At(L) = {}
                     THEN f.ret.ip = "" /\ f.ret.err = "no IPv4 address found"
                     ELSE f.ret.ip = L[Lowest(V4At(L))] /\ f.ret.err = "" /\ f.ret.port = 80
                ELSE IF f.net \in {"tcp6", "udp6"}
                THEN IF V6At(L) = {}
                     THEN f.ret.ip = "" /\ f.ret.err = "no IPv6 address found"
                     ELSE f.ret.ip = L[Lowest(V6At(L))] /\ f.ret.err = "" /\ f.ret.port = 80
                ELSE f.ret.ip = L[1] /\ f.ret.err = "" /\ f.ret.port = 80

\* tcp4 on a list that starts with an IPv6 address and holds two IPv4
\* addresses has returned the first of the two
C15_Witness ==
    \E c \in Callers :
        /\ call[c].pc = "done" /\ call[c].net = "tcp4"
        /\ call[c].ips = <<"2001:db8::1", "192.0.2.2", "192.0.2.1">>
        /\ call[c].ret.ip = "192.0.2.2"

\* C16 (as claimed): resolveAddr returns nothing from an entry that is
\* expired when read (now >= expiresAt): the entry is deleted and resolveDNS
\* runs in the caller; when it succeeds the caller gets the new addresses
\* and the new entry is stored, when it fails the caller gets the error and
\* the host has no entry.
C16_Claim ==
    [][\A c \in Callers :
        LET f == call[c]
            g == call'[c]
            e == CacheLoad(f.host)
        IN  /\ (f.pc = "load" /\ Stepped(c) /\ e.ok /\ f.now >= e.expires) =>
                    g.pc = "delete" /\ g.ret = RetNone
            /\ (f.pc = "delete" /\ Stepped(c)) =>
                    g.pc = "lookup" /\ cache'[f.host] = NoEntry
            /\ (f.expired /\ f.pc = "store" /\ Stepped(c)) =>
                    /\ g.pc = "done" /\ g.lookups = 1
                    /\ g.ret = SelectIP(f.net, f.host, f.ips, Atoi(f.port).n)
                    /\ cache'[f.host].ok /\ cache'[f.host].ips = f.ips
            /\ (f.expired /\ f.pc = "lookup" /\ g.pc = "done") =>
                    /\ g.ret.err # "" /\ g.ret.ip = ""
                    /\ cache'[f.host] = NoEntry]_vars

\* C16 (amended): as claimed, but when the resolution fails the caller gets
\* the error and the call has stored nothing: the cache is as the failing
\* lookup found it, so the host has no entry unless another resolution
\* stored one after the delete.
C16_Amended ==
    [][\A c \in Callers :
        LET f == call[c]
            g == call'[c]
            e == CacheLoad(f.host)
        IN  /\ (f.pc = "load" /\ Stepped(c) /\ e.ok /\ f.now >= e.expires) =>
                    g.pc = "delete" /\ g.ret = RetNone
            /\ (f.pc = "delete" /\ Stepped(c)) =>
                    g.pc = "lookup" /\ cache'[f.host] = NoEntry
            /\ (f.expired /\ f.pc = "store" /\ Stepped(c)) =>
                    /\ g.pc = "done" /\ g.lookups = 1
                    /\ g.ret = SelectIP(f.net, f.host, f.ips, Atoi(f.port).n)
                    /\ cache'[f.host].ok /\ cache'[f.host].ips = f.ips
            /\ (f.expired /\ f.pc = "lookup" /\ g.pc = "done") =>
                    /\ g.ret.err # "" /\ g.ret.ip = ""
                    /\ cache' = cache
                    /\ cache[f.host].ok => \E b \in 1..MaxBg :
                           bg[b].pc = "stored" /\ bg[b].host = f.host]_vars

\* a read has found the host's entry expired and its resolution has failed:
\* the caller has the error and the host has no entry
C16_Witness ==
    \E c \in Callers :
        /\ call[c].pc = "done" /\ call[c].op = "resolveAddr" /\ call[c].expired
        /\ call[c].ret.err = "lookup failed" /\ call[c].lookups = 1
        /\ cache[call[c].host] = NoEntry

\* C17: the Delete of an expired read (line 97 of lookupHost, line 214 of
\* GetCachedIPs) never takes out an entry that is unexpired at the moment of
\* the Delete, such as one stored by a resolution since the read.
C17_Claim ==
    [][\A c \in Callers :
        (call[c].pc \in {"delete", "probeDelete"} /\ Stepped(c)) =>
            ~(cache[call[c].host].ok /\ Before(clock, cache[call[c].host].expires)
                /\ cache'[call[c].host] = NoEntry)]_vars

\* C18: serverIndex never decreases, whatever the number of dial attempts,
\* past the capacity of the 32-bit counter too, and the server index
\* computed from it lies in 0..N-1.
C18_Claim ==
    [][/\ Uint32Leq(serverIndex, serverIndex')
       /\ IndexMod(serverIndex', Len(dnsServers)) \in 0..(Len(dnsServers) - 1)]_vars

\* C19: while ClearHost(H), or a ClearCache that raced with no store, is the
\* last call made (so no resolveAddr or RefreshCache has begun since it
\* returned), H has no entry: a refresh launched before the clear does not
\* put H back.
C19_Claim ==
    \A c \in Callers :
        LET f == call[c]
        IN  /\ (f.pc = "done" /\ f.op = "ClearHost") => cache[f.host] = NoEntry
            /\ (f.pc = "done" /\ f.op = "ClearCache" /\ f.stored = {}) => cache = EmptyCache

\* C20: every entry in the cache holds a non-empty address list, and so does
\* every resolution on its way to storing one (a lookup that yields no
\* address ends in an error); a call that returned from a cache hit on a
\* network outside tcp4/udp4/tcp6/udp6 returned the entry's first address.
C20_Theorem ==
    /\ \A h \in Names : cache[h].ok => Len(cache[h].ips) > 0
    /\ \A c \in Callers : call[c].pc \in {"stamp", "store"} => Len(call[c].ips) > 0
    /\ \A b \in 1..MaxBg : bg[b].pc \in {"stamp", "store"} => Len(bg[b].ips) > 0
    /\ \A c \in Callers :
        LET f == call[c]
        IN  (f.pc = "done" /\ f.op = "resolveAddr" /\ f.lookups = 0 /\ f.seen.ok
                /\ f.net \notin {"tcp4", "udp4", "tcp6", "udp6"}) =>
                f.ret.err = "" /\ f.ret.ip = f.seen.ips[1]

\* a background resolution has ended in an error and stored nothing, and a
\* call on the default network has hit a cached entry and returned its first
\* address
C20_Witness ==
    /\ \E b \in 1..MaxBg : bg[b].pc = "failed"
    /\ \E c \in Callers :
        /\ call[c].pc = "done" /\ call[c].op = "resolveAddr" /\ call[c].net = "tcp"
        /\ call[c].lookups = 0 /\ call[c].seen.ok
        /\ call[c].ret.ip = call[c].seen.ips[1]

====
